---------------------------- MODULE Spec2Model ----------------------------
(***************************************************************************)
(* A model of src/analyzer.py: the shell-history analyzer.                 *)
(*                                                                         *)
(* A string is a sequence of one-character strings.  A datetime is the     *)
(* record of its calendar fields and is ordered field by field, as         *)
(* Python's datetime is.  A dict is the sequence of its <<key, value>>     *)
(* items in insertion order, which is the order Python iterates it in.     *)
(* The local time zone of datetime.fromtimestamp is taken to be UTC.       *)
(***************************************************************************)
EXTENDS Integers, Sequences, FiniteSets, TLC

(***************************************************************************)
(* Bounds of the model.                                                    *)
(***************************************************************************)
MaxLines == 3

(***************************************************************************)
(* Strings.                                                                *)
(***************************************************************************)
\* the whitespace of str.strip() and str.split()
Whitespace == {" ", "\t", "\n", "\r", "\f"}

DigitVal ==
    [c \in {"0", "1", "2", "3", "4", "5", "6", "7", "8", "9"} |->
        CASE c = "0" -> 0 [] c = "1" -> 1 [] c = "2" -> 2 [] c = "3" -> 3
          [] c = "4" -> 4 [] c = "5" -> 5 [] c = "6" -> 6 [] c = "7" -> 7
          [] c = "8" -> 8 [] c = "9" -> 9]

IsDigit(c) == c \in DOMAIN DigitVal

\* s[a..b], empty when a > b
Slice(s, a, b) == IF a > b THEN <<>> ELSE SubSeq(s, a, b)

\* str.startswith(p)
StartsWith(s, p) == Len(s) >= Len(p) /\ SubSeq(s, 1, Len(p)) = p

\* str.strip(): whitespace removed at both ends
RECURSIVE LStrip(_)
LStrip(s) ==
    IF s # <<>> /\ Head(s) \in Whitespace THEN LStrip(Tail(s)) ELSE s

RECURSIVE RStrip(_)
RStrip(s) ==
    IF s # <<>> /\ s[Len(s)] \in Whitespace
    THEN RStrip(SubSeq(s, 1, Len(s) - 1))
    ELSE s

Strip(s) == LStrip(RStrip(s))

\* str.split(sep) for a one-character separator: always at least one part
RECURSIVE SplitOn(_, _, _, _)
SplitOn(s, sep, i, cur) ==
    IF i > Len(s) THEN <<cur>>
    ELSE IF s[i] = sep THEN <<cur>> \o SplitOn(s, sep, i + 1, <<>>)
    ELSE SplitOn(s, sep, i + 1, Append(cur, s[i]))

Split(s, sep) == SplitOn(s, sep, 1, <<>>)

\* sep.join(parts)
RECURSIVE Join(_, _)
Join(parts, sep) ==
    IF parts = <<>> THEN <<>>
    ELSE IF Len(parts) = 1 THEN parts[1]
    ELSE parts[1] \o <<sep>> \o Join(Tail(parts), sep)

\* str.split() without argument: the maximal runs of non-whitespace
RECURSIVE SplitWs(_, _, _)
SplitWs(s, i, cur) ==
    IF i > Len(s) THEN (IF cur = <<>> THEN <<>> ELSE <<cur>>)
    ELSE IF s[i] \in Whitespace
         THEN (IF cur = <<>> THEN <<>> ELSE <<cur>>) \o SplitWs(s, i + 1, <<>>)
         ELSE SplitWs(s, i + 1, Append(cur, s[i]))

SplitWhitespace(s) == SplitWs(s, 1, <<>>)

\* int(s): surrounding whitespace and one sign allowed, then decimal digits.
\* The result is [ok |-> TRUE, val |-> n], or ok = FALSE for ValueError.
RECURSIVE DigitsValue(_, _)
DigitsValue(s, acc) ==
    IF s = <<>> THEN acc ELSE DigitsValue(Tail(s), acc * 10 + DigitVal[Head(s)])

ParseInt(s) ==
    LET t == Strip(s)
        signed == t # <<>> /\ Head(t) \in {"+", "-"}
        body == IF signed THEN Tail(t) ELSE t
    IN  IF body # <<>> /\ \A i \in DOMAIN body : IsDigit(body[i])
        THEN [ok |-> TRUE,
              val |-> IF signed /\ Head(t) = "-"
                      THEN 0 - DigitsValue(body, 0)
                      ELSE DigitsValue(body, 0)]
        ELSE [ok |-> FALSE, val |-> 0]

(***************************************************************************)
(* Calendar: the proleptic Gregorian calendar of Python's datetime.        *)
(***************************************************************************)
IsLeap(y) == y % 4 = 0 /\ (y % 100 # 0 \/ y % 400 = 0)

DaysInMonth(y, m) ==
    IF m = 2 THEN (IF IsLeap(y) THEN 29 ELSE 28)
    ELSE IF m \in {4, 6, 9, 11} THEN 30 ELSE 31

RECURSIVE DaysBeforeMonth(_, _)
DaysBeforeMonth(y, m) ==
    IF m = 1 THEN 0 ELSE DaysBeforeMonth(y, m - 1) + DaysInMonth(y, m - 1)

\* days from 1970-01-01 to the 1st of January of year y
DaysBeforeYear(y) ==
    LET p == y - 1
    IN  365 * p + (p \div 4) - (p \div 100) + (p \div 400) - 719162

\* the number of days from 1970-01-01 to the date y-m-d
DaysFromCivil(y, m, d) == DaysBeforeYear(y) + DaysBeforeMonth(y, m) + d - 1

\* the year holding day number n (days since 1970-01-01)
RECURSIVE YearOfDay(_, _)
YearOfDay(n, y) ==
    IF n < DaysBeforeYear(y) THEN YearOfDay(n, y - 1)
    ELSE IF n >= DaysBeforeYear(y + 1) THEN YearOfDay(n, y + 1)
    ELSE y

RECURSIVE MonthOfYday(_, _, _)
MonthOfYday(y, yday, m) ==
    IF yday <= DaysBeforeMonth(y, m) + DaysInMonth(y, m) THEN m
    ELSE MonthOfYday(y, yday, m + 1)

\* datetime.fromtimestamp(ts) for an integer ts
FromTimestamp(ts) ==
    LET n    == ts \div 86400
        secs == ts % 86400
        y    == YearOfDay(n, 1970 + (n \div 365))
        yday == n - DaysBeforeYear(y) + 1
        m    == MonthOfYday(y, yday, 1)
    IN  [year |-> y, month |-> m, day |-> yday - DaysBeforeMonth(y, m),
         hour |-> secs \div 3600, minute |-> (secs % 3600) \div 60,
         second |-> secs % 60, microsecond |-> 0]

\* datetime.max
DatetimeMax ==
    [year |-> 9999, month |-> 12, day |-> 31, hour |-> 23, minute |-> 59,
     second |-> 59, microsecond |-> 999999]

DtKey(t) ==
    <<t.year, t.month, t.day, t.hour, t.minute, t.second, t.microsecond>>

RECURSIVE LexLess(_, _)
LexLess(a, b) ==
    IF a = <<>> THEN FALSE
    ELSE IF Head(a) # Head(b) THEN Head(a) < Head(b)
    ELSE LexLess(Tail(a), Tail(b))

\* a < b on datetimes
DtLess(a, b) == LexLess(DtKey(a), DtKey(b))

\* datetime.weekday(): Monday is 0; 1970-01-01 was a Thursday
Weekday(t) == (DaysFromCivil(t.year, t.month, t.day) + 3) % 7

\* datetime.timetuple().tm_yday
Yday(t) == DaysBeforeMonth(t.year, t.month) + t.day

(***************************************************************************)
(* Tokenizer: shlex.split (POSIX mode, whitespace_split, no comments) and  *)
(* the fallback of _safe_split_command.                                    *)
(***************************************************************************)
ShlexWhitespace == {" ", "\t", "\r", "\n"}
Quotes == {"'", "\""}
Escape == "\\"

\* shlex.split(s) read character by character from position i.  st is the
\* lexer state: "ws" between tokens, "word" inside one, a quote character
\* inside quotes, Escape after a backslash (esc is the state to return to).
\* The result is [ok |-> TRUE, tokens |-> ...], or ok = FALSE for the
\* ValueError of an unterminated quotation or a trailing backslash.
RECURSIVE ShlexRun(_, _, _, _, _, _)
ShlexRun(s, i, st, tok, esc, out) ==
    IF i > Len(s)
    THEN IF st \in Quotes \/ st = Escape THEN [ok |-> FALSE, tokens |-> <<>>]
         ELSE IF st = "word" THEN [ok |-> TRUE, tokens |-> Append(out, tok)]
         ELSE [ok |-> TRUE, tokens |-> out]
    ELSE LET c == s[i] IN
         IF st = "ws"
         THEN IF c \in ShlexWhitespace THEN ShlexRun(s, i + 1, "ws", <<>>, esc, out)
              ELSE IF c = Escape THEN ShlexRun(s, i + 1, Escape, tok, "word", out)
              ELSE IF c \in Quotes THEN ShlexRun(s, i + 1, c, tok, esc, out)
              ELSE ShlexRun(s, i + 1, "word", <<c>>, esc, out)
         ELSE IF st \in Quotes
         THEN IF c = st THEN ShlexRun(s, i + 1, "word", tok, esc, out)
              ELSE IF c = Escape /\ st = "\""
                   THEN ShlexRun(s, i + 1, Escape, tok, st, out)
              ELSE ShlexRun(s, i + 1, st, Append(tok, c), esc, out)
         ELSE IF st = Escape
         THEN IF esc \in Quotes /\ c # Escape /\ c # esc
              THEN ShlexRun(s, i + 1, esc, tok \o <<Escape, c>>, esc, out)
              ELSE ShlexRun(s, i + 1, esc, Append(tok, c), esc, out)
         ELSE \* st = "word"
              IF c \in ShlexWhitespace
              THEN ShlexRun(s, i + 1, "ws", <<>>, esc, Append(out, tok))
              ELSE IF c \in Quotes THEN ShlexRun(s, i + 1, c, tok, esc, out)
              ELSE IF c = Escape THEN ShlexRun(s, i + 1, Escape, tok, "word", out)
              ELSE ShlexRun(s, i + 1, "word", Append(tok, c), esc, out)

ShlexSplit(s) == ShlexRun(s, 1, "ws", <<>>, "word", <<>>)

\* the first position >= i of s holding character c, Len(s) + 1 if none
RECURSIVE FindChar(_, _, _)
FindChar(s, c, i) ==
    IF i > Len(s) \/ s[i] = c THEN i ELSE FindChar(s, c, i + 1)

\* re.sub(r'(\'[^\']*|"[^"]*)', '', s): from each quote character, delete up
\* to (not including) the next quote character of the same kind
RECURSIVE RemoveUnclosed(_, _)
RemoveUnclosed(s, i) ==
    IF i > Len(s) THEN <<>>
    ELSE IF s[i] \in Quotes THEN RemoveUnclosed(s, FindChar(s, s[i], i + 1))
    ELSE <<s[i]>> \o RemoveUnclosed(s, i + 1)

\* _safe_split_command(command): never raises
safe_split_command(command) ==
    LET r == ShlexSplit(command)
    IN  IF r.ok THEN r.tokens
        ELSE SplitWhitespace(RemoveUnclosed(command, 1))

(***************************************************************************)
(* Dicts in insertion order.                                               *)
(***************************************************************************)
Keys(d) == {d[i][1] : i \in DOMAIN d}

Get(d, k) == d[CHOOSE i \in DOMAIN d : d[i][1] = k][2]

\* d[k] = v, appending the key when it is new
Put(d, k, v) ==
    IF k \in Keys(d)
    THEN [i \in DOMAIN d |-> IF d[i][1] = k THEN <<k, v>> ELSE d[i]]
    ELSE Append(d, <<k, v>>)

\* mutant of Inc: d[k] = 1 written for d[k] += 1
IncAssignsOne(d, k) == Put(d, k, 1)

\* d[k] += 1 on a defaultdict(int)
Inc(d, k) == Put(d, k, (IF k \in Keys(d) THEN Get(d, k) ELSE 0) + 1)

RECURSIVE SumValues(_)
SumValues(d) == IF d = <<>> THEN 0 ELSE d[1][2] + SumValues(Tail(d))

\* max(d.items(), key=lambda x: x[1]) of a non-empty dict: the first item,
\* in iteration order, whose value is the greatest
MaxItem(d) ==
    d[CHOOSE i \in DOMAIN d :
        \A j \in DOMAIN d : d[j][2] <= d[i][2] /\ (j < i => d[j][2] < d[i][2])]

\* sorted(d.items(), key=lambda x: x[1], reverse=True): a stable sort, so
\* items of equal value keep their iteration order
RECURSIVE InsertDesc(_, _)
InsertDesc(sorted, x) ==
    IF sorted = <<>> THEN <<x>>
    ELSE IF Head(sorted)[2] >= x[2]
         THEN <<Head(sorted)>> \o InsertDesc(Tail(sorted), x)
         ELSE <<x>> \o sorted

RECURSIVE SortedDesc(_)
SortedDesc(d) ==
    IF d = <<>> THEN <<>>
    ELSE InsertDesc(SortedDesc(SubSeq(d, 1, Len(d) - 1)), d[Len(d)])

\* s[:n]
FirstN(s, n) == IF Len(s) <= n THEN s ELSE SubSeq(s, 1, n)

(***************************************************************************)
(* Inputs: the history lines a file is made of, the wall-clock times of    *)
(* datetime.now(), the --shell and --year arguments.                       *)
(***************************************************************************)
DigitChar == <<"0", "1", "2", "3", "4", "5", "6", "7", "8", "9">>

\* the decimal digits of n >= 0
RECURSIVE Dec(_)
Dec(n) == IF n < 10 THEN <<DigitChar[n + 1]>>
          ELSE Append(Dec(n \div 10), DigitChar[(n % 10) + 1])

GitStatus == <<"g", "i", "t", " ", "s", "t", "a", "t", "u", "s">>
Ls == <<"l", "s">>
Pwd == <<"p", "w", "d">>
EchoOpenQuote == <<"e", "c", "h", "o", " ", "'", "a">>

\* :<epoch_start>:<duration>;<command>, the extended format of zsh
ExtendedLine(epoch, cmd) == <<":">> \o Dec(epoch) \o <<":", "0", ";">> \o cmd \o <<"\n">>

\* :;<epoch>;<command>, a line whose second ';'-separated field is a number
NumberedLine(epoch, cmd) == <<":", ";">> \o Dec(epoch) \o <<";">> \o cmd \o <<"\n">>

LinePool ==
    { ExtendedLine(1700000000, GitStatus),           \* 2023-11-14, Tuesday
      ExtendedLine(1700000000, Ls \o <<";">> \o Pwd),
      GitStatus \o <<"\n">>,
      <<"\n">>,
      NumberedLine(1699833600, GitStatus),           \* 2023-11-13, Monday
      NumberedLine(1689850000, EchoOpenQuote),       \* 2023-07-20, Thursday
      NumberedLine(1650000000, Ls),                  \* 2022-04-15
      NumberedLine(1680000000, <<" ">>) }            \* 2023-03-28, no command

\* the files of at most MaxLines lines
RECURSIVE FilesOfLen(_)
FilesOfLen(n) ==
    IF n = 0 THEN {<<>>}
    ELSE {Append(f, l) : f \in FilesOfLen(n - 1), l \in LinePool}

Files == UNION {FilesOfLen(n) : n \in 0..MaxLines}

\* 2023-12-31 23:59:59 and 2024-01-01 00:00:00
NowPool == {1704067199, 1704067200}

\* the run starts at the earlier time, so that it may last into the new year
StartTime == CHOOSE t \in NowPool : \A u \in NowPool : t <= u

\* the keys of history_files
HistoryFiles == {"bash", "zsh", "fish"}

\* the shells s for which the class defines _parse_<s>_history
ParseMethods == {"bash", "zsh"}

\* the values of --shell
Shells == {"bash", "zsh", "fish", "tcsh"}

\* --year: 0 stands for an omitted argument (None), which `year or ...`
\* treats as it treats 0
YearArgs == {0, 2023}

(***************************************************************************)
(* State.                                                                  *)
(***************************************************************************)
VARIABLES
    shell,         \* args.shell
    file_exists,   \* the selected shell has a history file, and it exists
    file,          \* the lines of that file, if it exists and has a parser
    clock,         \* the wall clock read by datetime.now()
    year,          \* self.year
    command_data,  \* self.command_data
    pc,            \* "start", "loop", "report", "done" or "fatal"
    lineno,        \* the number of lines the parser has read
    stream,        \* the records the parser has yielded so far
    error,         \* the exception that ended the run, "" if none
    output         \* what generate_report has printed

vars == <<shell, file_exists, file, clock, year, command_data, pc, lineno,
          stream, error, output>>

\* __init__: the empty aggregate
InitialData ==
    [total_commands      |-> 0,
     unique_commands     |-> {},
     commands_by_month   |-> <<>>,
     commands_by_weekday |-> <<>>,
     commands_by_hour    |-> <<>>,
     commands_by_day     |-> <<>>,
     total_command_count |-> <<>>,
     first_command       |-> <<>>,       \* None; <<c>> for the command c
     first_command_time  |-> DatetimeMax]

Init ==
    /\ shell \in Shells
    /\ file_exists \in (IF shell \in HistoryFiles THEN BOOLEAN ELSE {FALSE})
    /\ file \in (IF file_exists /\ shell \in ParseMethods THEN Files ELSE {<<>>})
    /\ clock = StartTime
    /\ \E arg \in YearArgs :
          year = IF arg # 0 THEN arg ELSE FromTimestamp(clock).year
    /\ command_data = InitialData
    /\ pc = "start"
    /\ lineno = 0
    /\ stream = <<>>
    /\ error = ""
    /\ output = <<>>

(***************************************************************************)
(* parse_shell_history                                                     *)
(***************************************************************************)
\* main calls analyze_commands, which calls parse_shell_history first
ParseShellHistory ==
    /\ pc = "start"
    /\ IF shell \notin HistoryFiles \/ ~file_exists
       THEN pc' = "fatal" /\ error' = "FileNotFoundError"
       ELSE IF shell \notin ParseMethods
       THEN pc' = "fatal" /\ error' = "AttributeError"
       ELSE pc' = "loop" /\ error' = error
    /\ UNCHANGED <<shell, file_exists, file, clock, year, command_data,
                   lineno, stream, output>>

(***************************************************************************)
(* _process_command                                                        *)
(***************************************************************************)
\* mutant of IncMonth: the per-command count of the month is not updated
IncMonthCountOnly(d, month, base_command) ==
    LET old == IF month \in Keys(d) THEN Get(d, month)
               ELSE [count |-> 0, commands |-> <<>>]
    IN  Put(d, month, [count |-> old.count + 1, commands |-> old.commands])

\* commands_by_month[month]: count += 1 and commands[base_command] += 1
IncMonth(d, month, base_command) ==
    LET old == IF month \in Keys(d) THEN Get(d, month)
               ELSE [count |-> 0, commands |-> <<>>]
    IN  Put(d, month, [count    |-> old.count + 1,
                       commands |-> Inc(old.commands, base_command)])

\* mutant of NoBaseCommand: commands without arguments are skipped too
NoArguments(cmd_parts) == Len(cmd_parts) <= 1

\* `if not cmd_parts`
NoBaseCommand(cmd_parts) == cmd_parts = <<>>

\* mutant of IsEarlier: the comparison is reversed
IsLater(timestamp, cd) == DtLess(cd.first_command_time, timestamp)

\* `if timestamp < self.command_data['first_command_time']`
IsEarlier(timestamp, cd) == DtLess(timestamp, cd.first_command_time)

\* No statement of the try block raises for a string and a datetime, so
\* the except branch is never taken.
process_command(cd, command, timestamp) ==
    LET cmd_parts == safe_split_command(command) IN
    IF NoBaseCommand(cmd_parts) THEN cd
    ELSE
      LET base_command == cmd_parts[1]
          first == IsEarlier(timestamp, cd)
      IN  [total_commands      |-> cd.total_commands + 1,
           unique_commands     |-> cd.unique_commands \cup {base_command},
           total_command_count |-> Inc(cd.total_command_count, base_command),
           first_command       |-> IF first THEN <<command>> ELSE cd.first_command,
           first_command_time  |-> IF first THEN timestamp
                                   ELSE cd.first_command_time,
           commands_by_month   |-> IncMonth(cd.commands_by_month,
                                            timestamp.month, base_command),
           commands_by_weekday |-> Inc(cd.commands_by_weekday, Weekday(timestamp)),
           commands_by_hour    |-> Inc(cd.commands_by_hour, timestamp.hour),
           commands_by_day     |-> Inc(cd.commands_by_day, Yday(timestamp))]

\* mutant of analyze_record: the year is not compared
analyze_record_any_year(cd, command, timestamp) ==
    process_command(cd, command, timestamp)

\* the body of the loop of analyze_commands
analyze_record(cd, command, timestamp) ==
    IF timestamp.year # year THEN cd
    ELSE process_command(cd, command, timestamp)

(***************************************************************************)
(* The parsers, one line at a time, each followed by the loop body of      *)
(* analyze_commands when the line yields a record.                         *)
(***************************************************************************)
\* _parse_zsh_history on one line: "skip" (no record), "raise" (int() fails
\* with ValueError) or "record"
parse_zsh_line(line) ==
    IF ~StartsWith(line, <<":">>) THEN [kind |-> "skip"]
    ELSE LET parts == Split(line, ";") IN
         IF Len(parts) < 3 THEN [kind |-> "skip"]
         ELSE LET n == ParseInt(parts[2]) IN
              IF ~n.ok THEN [kind |-> "raise"]
              ELSE [kind      |-> "record",
                    timestamp |-> FromTimestamp(n.val),
                    command   |-> Strip(Join(SubSeq(parts, 3, Len(parts)), ";"))]

ZshLine ==
    /\ pc = "loop"
    /\ shell = "zsh"
    /\ lineno < Len(file)
    /\ lineno' = lineno + 1
    /\ LET r == parse_zsh_line(file[lineno + 1]) IN
         CASE r.kind = "skip" ->
                UNCHANGED <<command_data, stream, pc, error>>
           [] r.kind = "raise" ->
                /\ pc' = "fatal"
                /\ error' = "ValueError"
                /\ UNCHANGED <<command_data, stream>>
           [] r.kind = "record" ->
                /\ stream' = Append(stream, [command   |-> r.command,
                                            timestamp |-> r.timestamp])
                /\ command_data' = analyze_record(command_data, r.command,
                                                  r.timestamp)
                /\ UNCHANGED <<pc, error>>
    /\ UNCHANGED <<shell, file_exists, file, clock, year, output>>

\* _parse_bash_history on one line: the stripped line, if not empty, is a
\* record stamped datetime.now()
BashLine ==
    /\ pc = "loop"
    /\ shell = "bash"
    /\ lineno < Len(file)
    /\ lineno' = lineno + 1
    /\ LET line == Strip(file[lineno + 1]) IN
         IF line = <<>>
         THEN UNCHANGED <<command_data, stream, clock>>
         ELSE \E now \in NowPool :
                /\ now >= clock
                /\ clock' = now
                /\ stream' = Append(stream, [command   |-> line,
                                            timestamp |-> FromTimestamp(now)])
                /\ command_data' = analyze_record(command_data, line,
                                                  FromTimestamp(now))
    /\ UNCHANGED <<shell, file_exists, file, year, pc, error, output>>

\* the parser is exhausted: analyze_commands returns
EndOfHistory ==
    /\ pc = "loop"
    /\ lineno = Len(file)
    /\ pc' = "report"
    /\ UNCHANGED <<shell, file_exists, file, clock, year, command_data,
                   lineno, stream, error, output>>

(***************************************************************************)
(* generate_report                                                         *)
(***************************************************************************)
\* the sections printed before the most active day
ReportHead(cd) ==
    LET months == [i \in DOMAIN cd.commands_by_month |->
                     <<cd.commands_by_month[i][1],
                       cd.commands_by_month[i][2].count,
                       cd.commands_by_month[i][2].commands>>]
        active_months == FirstN(SortedDesc(months), 3)
    IN  << <<"year", year>>,
           <<"total_commands", cd.total_commands>>,
           <<"unique_commands", Cardinality(cd.unique_commands)>>,
           <<"top_commands", FirstN(SortedDesc(cd.total_command_count), 10)>>,
           <<"active_months",
             [i \in DOMAIN active_months |->
                <<active_months[i][1], active_months[i][2]>>]>>,
           <<"month_top_commands",
             [i \in DOMAIN active_months |->
                <<active_months[i][1],
                  FirstN(SortedDesc(active_months[i][3]), 3)>>]>> >>

\* most_active_weekday, the dict being non-empty
most_active_weekday(cd) == MaxItem(cd.commands_by_weekday)[1]

\* most_active_hour, the dict being non-empty
most_active_hour(cd) == MaxItem(cd.commands_by_hour)[1]

\* max() of an empty sequence raises ValueError, after the head is printed
GenerateReport ==
    /\ pc = "report"
    /\ IF command_data.commands_by_weekday = <<>>
       THEN /\ output' = ReportHead(command_data)
            /\ pc' = "fatal"
            /\ error' = "ValueError"
       ELSE /\ output' = ReportHead(command_data) \o
                   << <<"most_active_day", most_active_weekday(command_data)>>,
                      <<"most_active_hour", most_active_hour(command_data)>> >>
            /\ pc' = "done"
            /\ error' = error
    /\ UNCHANGED <<shell, file_exists, file, clock, year, command_data,
                   lineno, stream>>

Next ==
    \/ ParseShellHistory
    \/ ZshLine
    \/ BashLine
    \/ EndOfHistory
    \/ GenerateReport

Spec == Init /\ [][Next]_vars

(***************************************************************************)
(* Properties.                                                             *)
(***************************************************************************)
\* an admitted record: its year is the target year
Admitted(r) == r.timestamp.year = year

\* a record that is counted: admitted, and its tokens are not empty
Counted(r) == Admitted(r) /\ safe_split_command(r.command) # <<>>

AdmittedIdx == {i \in DOMAIN stream : Admitted(stream[i])}
CountedIdx == {i \in DOMAIN stream : Counted(stream[i])}

\* first_command and first_command_time are those of a record, among the
\* records numbered in I, that no record of I is earlier than
FirstIsMinimumOf(I) ==
    \E i \in I :
       /\ \A j \in I : ~DtLess(stream[j].timestamp, stream[i].timestamp)
       /\ command_data.first_command = <<stream[i].command>>
       /\ command_data.first_command_time = stream[i].timestamp

\* the run was ended by an exception leaving the record loop
RecordLoopAborted == pc = "fatal" /\ lineno > 0 /\ output = <<>>

\* C1: an error raised while handling one history record (a tokenization
\* anomaly, a malformed numeric field of a zsh line) never aborts the run:
\* no exception leaves the record loop.
C1_RecordErrorNeverAborts == ~RecordLoopAborted

\* line is :<digits>:<digits>;<command>
IsExtendedFormat(line) ==
    LET semi  == FindChar(line, ";", 1)
        head  == Slice(line, 1, semi - 1)
        colon == FindChar(head, ":", 2)
    IN  /\ semi <= Len(line)
        /\ StartsWith(head, <<":">>)
        /\ colon < Len(head)
        /\ colon > 2
        /\ \A i \in (2..Len(head)) \ {colon} : IsDigit(head[i])

\* the record C2 expects of such a line: the time <epoch_start> and the text
\* after the first ';' (without the surrounding whitespace and newline)
ExtendedRecord(line) ==
    LET semi  == FindChar(line, ";", 1)
        colon == FindChar(line, ":", 2)
    IN  [command   |-> Strip(Slice(line, semi + 1, Len(line))),
         timestamp |-> FromTimestamp(DigitsValue(Slice(line, 2, colon - 1), 0))]

\* C2: reading a zsh line :<epoch_start>:<duration>;<command> yields exactly
\* one record, with the time <epoch_start> and the text after the first ';'
\* as its command; reading a line that does not start with ':' yields none.
C2_ZshLineYieldsRecord ==
    [][(pc = "loop" /\ shell = "zsh" /\ lineno < Len(file)) =>
         LET line == file[lineno + 1] IN
           /\ IsExtendedFormat(line) =>
                stream' = Append(stream, ExtendedRecord(line))
           /\ ~StartsWith(line, <<":">>) => stream' = stream]_vars

\* C3 as stated: first_command and first_command_time are those of the
\* record with the minimum timestamp among the admitted records (the records
\* of the target year).
C3_FirstIsEarliestAdmitted ==
    AdmittedIdx # {} => FirstIsMinimumOf(AdmittedIdx)

\* C3 amended: first_command and first_command_time are those of the record
\* with the minimum timestamp among the counted records (the records of the
\* target year whose tokenization is not empty), wherever it is in the
\* stream; they keep their initial values when no record is counted.
C3_FirstIsEarliestCounted ==
    IF CountedIdx # {} THEN FirstIsMinimumOf(CountedIdx)
    ELSE /\ command_data.first_command = <<>>
         /\ command_data.first_command_time = DatetimeMax

\* a later record of the stream is the earliest counted one, and a record of
\* the target year with no command is earlier still
C3_Witness ==
    \E i, j, k \in DOMAIN stream :
       /\ i < j
       /\ Counted(stream[i]) /\ Counted(stream[j])
       /\ DtLess(stream[j].timestamp, stream[i].timestamp)
       /\ Admitted(stream[k]) /\ ~Counted(stream[k])
       /\ DtLess(stream[k].timestamp, stream[j].timestamp)
       /\ command_data.first_command = <<stream[j].command>>

\* C4: generate_report never raises: with no record counted it completes and
\* reports "no data" for the most active day and hour.
C4_GenerateReportNeverRaises == ~(pc = "fatal" /\ output # <<>>)

\* C5: when several weekdays share the maximum count, the most active day
\* that is reported is the one of lowest index.
C5_TieGoesToLowestWeekday ==
    pc = "done" =>
       LET d == command_data.commands_by_weekday
           reported == output[Len(output) - 1][2]
       IN  \A k \in Keys(d) :
              (\A l \in Keys(d) : Get(d, l) <= Get(d, k)) => reported <= k

\* the shell has no history file, is not in the table, or has no parser
Unsupported ==
    shell \notin HistoryFiles \/ ~file_exists \/ shell \notin ParseMethods

\* C6: a run whose shell has no history file, is not in the shell table or
\* has no parsing routine ends in the "file not found" condition, with the
\* aggregate still initial and nothing printed.
C6_UnsupportedShellIsFileNotFound ==
    (Unsupported /\ pc # "start") =>
       /\ pc = "fatal"
       /\ error = "FileNotFoundError"
       /\ command_data = InitialData
       /\ output = <<>>

\* process_command folded over the records numbered in I, in stream order
RECURSIVE AggregateOf(_, _)
AggregateOf(n, I) ==
    IF n = 0 THEN InitialData
    ELSE IF n \in I
         THEN process_command(AggregateOf(n - 1, I),
                              stream[n].command, stream[n].timestamp)
         ELSE AggregateOf(n - 1, I)

\* C7: records of another year change no field of the aggregate: it is what
\* aggregating the records of the target year alone gives.
C7_OtherYearsChangeNothing ==
    command_data = AggregateOf(Len(stream), AdmittedIdx)

\* records of both kinds were read, and some were counted
C7_Witness ==
    /\ \E i \in DOMAIN stream : ~Admitted(stream[i])
    /\ \E i \in DOMAIN stream : i > 1 /\ Counted(stream[i])
    /\ command_data.total_commands > 0

\* C8: total_commands is the number of records of the target year whose
\* tokenization is not empty.
C8_TotalIsNumberCounted ==
    command_data.total_commands = Cardinality(CountedIdx)

\* records of each kind were read: counted, of another year, with no command
C8_Witness ==
    /\ pc = "report"
    /\ command_data.total_commands >= 1
    /\ \E i \in DOMAIN stream : ~Admitted(stream[i])
    /\ \E i \in DOMAIN stream :
          Admitted(stream[i]) /\ safe_split_command(stream[i].command) = <<>>

\* C9: total_commands is the sum of the values of total_command_count, and
\* unique_commands is its key set.
C9_TotalsAgree ==
    /\ command_data.total_commands = SumValues(command_data.total_command_count)
    /\ command_data.unique_commands = Keys(command_data.total_command_count)

\* two commands were counted, one of them twice
C9_Witness ==
    /\ Cardinality(command_data.unique_commands) >= 2
    /\ \E k \in Keys(command_data.total_command_count) :
          Get(command_data.total_command_count, k) >= 2

\* C10: the month counts, the weekday counts, the hour counts and the day
\* counts each sum to total_commands, and the count of a month is the sum of
\* its per-command counts.
C10_BucketsSumToTotal ==
    LET cd == command_data
        month_counts == [i \in DOMAIN cd.commands_by_month |->
                           <<cd.commands_by_month[i][1],
                             cd.commands_by_month[i][2].count>>]
    IN  /\ SumValues(month_counts) = cd.total_commands
        /\ SumValues(cd.commands_by_weekday) = cd.total_commands
        /\ SumValues(cd.commands_by_hour) = cd.total_commands
        /\ SumValues(cd.commands_by_day) = cd.total_commands
        /\ \A i \in DOMAIN cd.commands_by_month :
              cd.commands_by_month[i][2].count =
                 SumValues(cd.commands_by_month[i][2].commands)

\* a month holds two commands and another month holds one
C10_Witness ==
    /\ Len(command_data.commands_by_month) >= 2
    /\ \E i \in DOMAIN command_data.commands_by_month :
          command_data.commands_by_month[i][2].count >= 2

=============================================================================
